---- MODULE Spec2Model ----
(***************************************************************************)
(* Native binary codec of package pb (types_zap.go and its dispatch layer): *)
(* Size / Marshal / MarshalToSizedBuffer / Unmarshal / Clone of KV,        *)
(* KVList, ManifestChange, ManifestChangeSet, DataKey, Checksum and Match, *)
(* over an explicit heap of Go backing arrays.                             *)
(*                                                                         *)
(* Number representation.  TLC integers are 32 bit, so                     *)
(*   uint32 is a pair  <<l0, l1>>          of 16-bit limbs, little end     *)
(*   uint64 is a tuple <<l0, l1, l2, l3>>  of 16-bit limbs, first,         *)
(*   int32  is a TLC integer in -2^31 .. 2^31-1,                           *)
(*   int64  is <<l0, l1, l2, h>> with h a signed limb in -32768..32767     *)
(*          (value l0 + 2^16 l1 + 2^32 l2 + 2^48 h),                       *)
(*   int    (offsets, lengths) is a TLC integer; every buffer of the       *)
(*          model is far shorter than 2^16 bytes.                          *)
(* A byte is an integer 0..255.  A []byte is a slice header                *)
(* [arr, off, len, cap] into heap[arr]; arr = 0 is the nil slice.          *)
(***************************************************************************)
EXTENDS Integers, Sequences, FiniteSets, TLC

\* Longest byte field of an input record.
MaxLen == 2
\* Most children of an input KVList / ManifestChangeSet.
MaxKids == 2
\* Most writes of a concurrent goroutine during one KVList.Marshal.
MaxGrow == 1
MaxPad == 2

---------------------------------------------------------------------------
\* The build.

VARIABLE
    intSize \* the width of Go's int in this build: 32 or 64

---------------------------------------------------------------------------
\* Byte sequences and the heap

Zeros(n) == [i \in 1..n |-> 0]

Min(a, b) == IF a < b THEN a ELSE b

\* buf with src written at positions off+1 .. off+Len(src)
Splice(buf, off, src) ==
    [i \in 1..Len(buf) |->
        IF i > off /\ i <= off + Len(src) THEN src[i - off] ELSE buf[i]]

NilSlice == [arr |-> 0, off |-> 0, len |-> 0, cap |-> 0]

\* The bytes a slice header denotes in heap h.
Bytes(h, s) ==
    IF s.arr = 0 THEN <<>> ELSE SubSeq(h[s.arr], s.off + 1, s.off + s.len)

\* make([]byte, len(b)) followed by copy(_, b): a fresh backing array.
Alloc(h, b) ==
    [h |-> Append(h, b),
     s |-> [arr |-> Len(h) + 1, off |-> 0, len |-> Len(b), cap |-> Len(b)]]

\* s[lo:hi]
SubSlice(s, lo, hi) ==
    [arr |-> s.arr, off |-> s.off + lo, len |-> hi - lo, cap |-> s.cap - lo]

\* Store b through slice s (the caller has checked Len(b) = s.len).
Store(h, s, b) ==
    IF s.arr = 0 THEN h
    ELSE [h EXCEPT ![s.arr] = Splice(@, s.off, b)]

---------------------------------------------------------------------------
\* encoding/binary.LittleEndian on limbs

LE16(l) == <<l % 256, l \div 256>>

LE32(v) == LE16(v[1]) \o LE16(v[2])

LE64(v) == LE16(v[1]) \o LE16(v[2]) \o LE16(v[3]) \o LE16(v[4])

\* uint32(n) of a non-negative int n
U32OfInt(n) == <<n % 65536, (n \div 65536) % 65536>>

\* A conversion that loses the sign: negatives become 0.
U32OfInt32_Clamped(x) ==
    IF x >= 0 THEN <<x % 65536, x \div 65536>> ELSE <<0, 0>>

\* uint32(x) of an int32 x: two's complement reinterpretation
U32OfInt32(x) ==
    IF x >= 0 THEN <<x % 65536, x \div 65536>>
    ELSE LET w == (x + 2147483647) + 1
         IN  <<w % 65536, (w \div 65536) + 32768>>

\* int32(v) of a uint32 v
Int32OfU32(v) ==
    IF v[2] < 32768 THEN v[2] * 65536 + v[1]
    ELSE (((v[2] - 32768) * 65536 + v[1]) - 2147483647) - 1

\* uint64(x) of an int64 x
U64OfInt64(x) == <<x[1], x[2], x[3], IF x[4] < 0 THEN x[4] + 65536 ELSE x[4]>>

\* A conversion that keeps the top limb unsigned.
Int64OfU64_Unsigned(v) == v

\* int64(v) of a uint64 v
Int64OfU64(v) == <<v[1], v[2], v[3], IF v[4] >= 32768 THEN v[4] - 65536 ELSE v[4]>>

\* A write position in a buffer being encoded: [buf, off, panic].
\* binary.LittleEndian.PutUint32(buf[offset:], v); panics on a short buffer.
PutUint32(w, v) ==
    IF w.panic \/ w.off + 4 > Len(w.buf) THEN [w EXCEPT !.panic = TRUE]
    ELSE [w EXCEPT !.buf = Splice(@, w.off, LE32(v))]

PutUint64(w, v) ==
    IF w.panic \/ w.off + 8 > Len(w.buf) THEN [w EXCEPT !.panic = TRUE]
    ELSE [w EXCEPT !.buf = Splice(@, w.off, LE64(v))]

\* copy(buf[offset:], src): copies min(len(src), len(buf)-offset) bytes.
Copy(w, src) ==
    IF w.panic \/ w.off > Len(w.buf) THEN [w EXCEPT !.panic = TRUE]
    ELSE [w EXCEPT !.buf =
            Splice(@, w.off, SubSeq(src, 1, Min(Len(src), Len(w.buf) - w.off)))]

\* buf[offset] = b
PutByte(w, b) ==
    IF w.panic \/ w.off + 1 > Len(w.buf) THEN [w EXCEPT !.panic = TRUE]
    ELSE [w EXCEPT !.buf = Splice(@, w.off, <<b>>)]

\* offset += n
Skip(w, n) == [w EXCEPT !.off = @ + n]

Writer(buf) == [buf |-> buf, off |-> 0, panic |-> FALSE]

ErrOf(w) == IF w.panic THEN "panic" ELSE "nil"

\* What an encoder returns once its last write, of `last` bytes at w.off, is
\* done: [buf, err], and end: the offset just past the last byte written
\* (not returned by the code; kept for the size claims).
Encoded(w, last) == [buf |-> w.buf, err |-> ErrOf(w), end |-> w.off + last]

\* binary.LittleEndian.Uint32(data[off:]) (the caller has checked the length)
Uint32(data, off) ==
    <<data[off + 1] + 256 * data[off + 2], data[off + 3] + 256 * data[off + 4]>>

Uint64(data, off) ==
    <<data[off + 1] + 256 * data[off + 2], data[off + 3] + 256 * data[off + 4],
      data[off + 5] + 256 * data[off + 6], data[off + 7] + 256 * data[off + 8]>>

---------------------------------------------------------------------------
\* Records.  An encoder reads a record by value: byte fields are sequences
\* (View below turns slice headers into the bytes they denote).

\* A size that leaves out the StreamDone byte.
KV_Size_NoFlag(k) ==
    36 + Len(k.Key) + Len(k.Value) + Len(k.UserMeta) + Len(k.Meta)

\* (k *KV) Size
KV_Size(k) ==
    4 + Len(k.Key) +
    4 + Len(k.Value) +
    4 + Len(k.UserMeta) +
    8 +
    8 +
    4 + Len(k.Meta) +
    4 +
    1

\* A guard that also refuses a buffer of exactly Size() bytes.
ShortBuffer_OffByOne(k, buf) == Len(buf) <= KV_Size(k)

\* if len(buf) < k.Size()
ShortBuffer(k, buf) == Len(buf) < KV_Size(k)

\* return offset, nil
Written(w) == [buf |-> w.buf, n |-> w.off, err |-> ErrOf(w)]

\* (k *KV) MarshalToSizedBuffer: [buf, n, err]
KV_MarshalToSizedBuffer(k, buf) ==
    IF ShortBuffer(k, buf)
    THEN [buf |-> buf, n |-> 0, err |-> "io.ErrShortBuffer"]
    ELSE LET w0  == Writer(buf)
             w1  == Skip(PutUint32(w0, U32OfInt(Len(k.Key))), 4)
             w2  == Skip(Copy(w1, k.Key), Len(k.Key))
             w3  == Skip(PutUint32(w2, U32OfInt(Len(k.Value))), 4)
             w4  == Skip(Copy(w3, k.Value), Len(k.Value))
             w5  == Skip(PutUint32(w4, U32OfInt(Len(k.UserMeta))), 4)
             w6  == Skip(Copy(w5, k.UserMeta), Len(k.UserMeta))
             w7  == Skip(PutUint64(w6, k.Version), 8)
             w8  == Skip(PutUint64(w7, k.ExpiresAt), 8)
             w9  == Skip(PutUint32(w8, U32OfInt(Len(k.Meta))), 4)
             w10 == Skip(Copy(w9, k.Meta), Len(k.Meta))
             w11 == Skip(PutUint32(w10, k.StreamId), 4)
             w12 == Skip(PutByte(w11, IF k.StreamDone THEN 1 ELSE 0), 1)
         IN  Written(w12)

\* return buf, err
KV_Marshaled(r) == [buf |-> r.buf, err |-> r.err, end |-> r.n]

\* (k *KV) Marshal
KV_Marshal(k) == KV_Marshaled(KV_MarshalToSizedBuffer(k, Zeros(KV_Size(k))))

\* (m *ManifestChange) Size
ManifestChange_Size(m) == 8 + 4 + 4 + 8 + 4 + 4

\* (m *ManifestChange) Marshal
ManifestChange_Marshal(m) ==
    LET w0 == Writer(Zeros(ManifestChange_Size(m)))
        w1 == Skip(PutUint64(w0, m.Id), 8)
        w2 == Skip(PutUint32(w1, U32OfInt32(m.Op)), 4)
        w3 == Skip(PutUint32(w2, m.Level), 4)
        w4 == Skip(PutUint64(w3, m.KeyId), 8)
        w5 == Skip(PutUint32(w4, U32OfInt32(m.EncryptionAlgo)), 4)
        w6 == PutUint32(w5, m.Compression)
    IN  Encoded(w6, 4)

\* (d *DataKey) Size
DataKey_Size(d) == 8 + 4 + Len(d.Data) + 4 + Len(d.Iv) + 8

\* (d *DataKey) Marshal
DataKey_Marshal(d) ==
    LET w0 == Writer(Zeros(DataKey_Size(d)))
        w1 == Skip(PutUint64(w0, d.KeyId), 8)
        w2 == Skip(PutUint32(w1, U32OfInt(Len(d.Data))), 4)
        w3 == Skip(Copy(w2, d.Data), Len(d.Data))
        w4 == Skip(PutUint32(w3, U32OfInt(Len(d.Iv))), 4)
        w5 == Skip(Copy(w4, d.Iv), Len(d.Iv))
        w6 == PutUint64(w5, U64OfInt64(d.CreatedAt))
    IN  Encoded(w6, 8)

\* (c *Checksum) Size
Checksum_Size(c) == 4 + 8

\* (c *Checksum) Marshal
Checksum_Marshal(c) ==
    LET w0 == Writer(Zeros(Checksum_Size(c)))
        w1 == PutUint32(w0, U32OfInt32(c.Algo))
        w2 == PutUint64(Skip(w1, 4), c.Sum)
    IN  Encoded(w2, 8)

\* (m *Match) Size
Match_Size(m) == 4 + Len(m.Prefix) + 4 + Len(m.IgnoreBytes)

\* (m *Match) Marshal
Match_Marshal(m) ==
    LET w0 == Writer(Zeros(Match_Size(m)))
        w1 == Skip(PutUint32(w0, U32OfInt(Len(m.Prefix))), 4)
        w2 == Skip(Copy(w1, m.Prefix), Len(m.Prefix))
        w3 == Skip(PutUint32(w2, U32OfInt(Len(m.IgnoreBytes))), 4)
        w4 == Copy(w3, m.IgnoreBytes)
    IN  Encoded(w4, Len(m.IgnoreBytes))

RECURSIVE KVList_SizeFrom(_, _)
KVList_SizeFrom(kvs, i) ==
    IF i > Len(kvs) THEN 0
    ELSE 4 + KV_Size(kvs[i]) + KVList_SizeFrom(kvs, i + 1)

\* (l *KVList) Size
KVList_Size(l) == 4 + 8 + KVList_SizeFrom(l.Kv, 1)

\* The child's call has written r.buf into buf[offset : offset+kvSize]; its
\* (n, err) is dropped.  offset += kvSize
KVList_ChildWritten(w, r, kvSize) ==
    Skip([w EXCEPT !.buf = Splice(@, w.off, r.buf), !.panic = (r.err = "panic")],
         kvSize)

\* kv.MarshalToSizedBuffer(buf[offset : offset+kvSize])
KVList_WriteChild(w, kv, kvSize) ==
    IF w.panic \/ w.off + kvSize > Len(w.buf) THEN [w EXCEPT !.panic = TRUE]
    ELSE KVList_ChildWritten(
             w, KV_MarshalToSizedBuffer(kv, SubSeq(w.buf, w.off + 1, w.off + kvSize)),
             kvSize)

\* One pass of the loop of KVList.Marshal: the length prefix, then the child.
KVList_MarshalChild(w, kv) ==
    KVList_WriteChild(Skip(PutUint32(w, U32OfInt(KV_Size(kv))), 4), kv, KV_Size(kv))

RECURSIVE KVList_MarshalLoop(_, _, _)
KVList_MarshalLoop(w, kvs, i) ==
    IF i > Len(kvs) THEN w
    ELSE LET w1 == KVList_MarshalChild(w, kvs[i])
         IN  KVList_MarshalLoop(w1, kvs, i + 1)

\* An encoder that writes AllocRef ahead of the count and the entries.
KVList_Marshal_RefFirst(l) ==
    LET w0 == Writer(Zeros(KVList_Size(l)))
        w1 == Skip(PutUint64(w0, l.AllocRef), 8)
        w2 == Skip(PutUint32(w1, U32OfInt(Len(l.Kv))), 4)
        w3 == KVList_MarshalLoop(w2, l.Kv, 1)
    IN  Encoded(w3, 0)

\* (l *KVList) Marshal
KVList_Marshal(l) ==
    LET w0 == Writer(Zeros(KVList_Size(l)))
        w1 == Skip(PutUint32(w0, U32OfInt(Len(l.Kv))), 4)
        w2 == KVList_MarshalLoop(w1, l.Kv, 1)
        w3 == PutUint64(w2, l.AllocRef)
    IN  Encoded(w3, 8)

\* A hard-coded child size one byte short of ManifestChange.Size().
ManifestChangeSet_Size_Short(m) == 4 + Len(m.Changes) * (4 + 31)

\* (m *ManifestChangeSet) Size
ManifestChangeSet_Size(m) == 4 + Len(m.Changes) * (4 + 32)

\* if err != nil { return nil, err }, else the length prefix and the bytes
\* of the child; w.err carries the child's error out of the loop.
ManifestChangeSet_AppendChild(w, c) ==
    IF c.err # "nil" THEN [w EXCEPT !.err = c.err]
    ELSE Skip(Copy(Skip(PutUint32(w, U32OfInt(Len(c.buf))), 4), c.buf), Len(c.buf))

\* One pass of the loop of ManifestChangeSet.Marshal.
ManifestChangeSet_MarshalChild(w, change) ==
    ManifestChangeSet_AppendChild(w, ManifestChange_Marshal(change))

RECURSIVE ManifestChangeSet_MarshalLoop(_, _, _)
ManifestChangeSet_MarshalLoop(w, changes, i) ==
    IF i > Len(changes) \/ w.err # "nil" THEN w
    ELSE LET w1 == ManifestChangeSet_MarshalChild(w, changes[i])
         IN  ManifestChangeSet_MarshalLoop(w1, changes, i + 1)

\* return nil, err from the loop, or return buf, nil after it
ManifestChangeSet_Marshaled(w) ==
    IF w.err # "nil" THEN [buf |-> <<>>, err |-> w.err, end |-> w.off]
    ELSE Encoded(w, 0)

\* (m *ManifestChangeSet) Marshal
ManifestChangeSet_Marshal(m) ==
    LET w0 == [buf |-> Zeros(ManifestChangeSet_Size(m)), off |-> 0,
               panic |-> FALSE, err |-> "nil"]
        w1 == Skip(PutUint32(w0, U32OfInt(Len(m.Changes))), 4)
        w2 == ManifestChangeSet_MarshalLoop(w1, m.Changes, 1)
    IN  ManifestChangeSet_Marshaled(w2)

\* Method dispatch on the record's dynamic type.
SizeOf(v) ==
    CASE v.type = "KV"                -> KV_Size(v)
      [] v.type = "KVList"            -> KVList_Size(v)
      [] v.type = "ManifestChange"    -> ManifestChange_Size(v)
      [] v.type = "ManifestChangeSet" -> ManifestChangeSet_Size(v)
      [] v.type = "DataKey"           -> DataKey_Size(v)
      [] v.type = "Checksum"          -> Checksum_Size(v)
      [] v.type = "Match"             -> Match_Size(v)

MarshalOf(v) ==
    CASE v.type = "KV"                -> KV_Marshal(v)
      [] v.type = "KVList"            -> KVList_Marshal(v)
      [] v.type = "ManifestChange"    -> ManifestChange_Marshal(v)
      [] v.type = "ManifestChangeSet" -> ManifestChangeSet_Marshal(v)
      [] v.type = "DataKey"           -> DataKey_Marshal(v)
      [] v.type = "Checksum"          -> Checksum_Marshal(v)
      [] v.type = "Match"             -> Match_Marshal(v)

---------------------------------------------------------------------------
\* Decoding.  A decoder works on a receiver held in the heap: byte fields
\* are slice headers.  Its state is [h, r, off, err, u32]: the heap, the
\* receiver, the offset, the error returned so far ("nil" while running) and
\* the length prefix read last.

Decoder(h, r) ==
    [h |-> h, r |-> r, off |-> 0, err |-> "nil", u32 |-> <<0, 0>>,
     child |-> 0, childErr |-> "nil"]

\* What Unmarshal returns: [h, r, err], and, not returned by the code, the
\* index of the child whose own Unmarshal failed (0 if none) and its error.
Result(d) ==
    [h |-> d.h, r |-> d.r, err |-> d.err, child |-> d.child, childErr |-> d.childErr]

\* if len(data) < min { return errBufferTooSmall }
Refused(h, r) ==
    [h |-> h, r |-> r, err |-> "errBufferTooSmall", child |-> 0, childErr |-> "nil"]

\* A bounds check that lets a read end one byte past the data.
Need_OffByOne(d, data, n) ==
    IF d.err # "nil" THEN d
    ELSE IF d.off + n > data.len + 1 THEN [d EXCEPT !.err = "errBufferTooSmall"]
    ELSE d

\* if offset+n > len(data) { return errBufferTooSmall }
Need(d, data, n) ==
    IF d.err # "nil" THEN d
    ELSE IF d.off + n > data.len THEN [d EXCEPT !.err = "errBufferTooSmall"]
    ELSE d

\* x := int(binary.LittleEndian.Uint32(data[offset:])); offset += 4
ReadLen(d, data) ==
    IF d.err # "nil" THEN d
    ELSE IF d.off + 4 > data.len THEN [d EXCEPT !.err = "panic"]
    ELSE [d EXCEPT !.u32 = Uint32(Bytes(d.h, data), d.off), !.off = @ + 4]

\* int(v) < 0 for a uint32 v: only where int is 32 bits wide
Negative(v) == intSize = 32 /\ v[2] >= 32768

\* offset + int(v) overflows int, for v with int(v) >= 0
Wraps(off, v) ==
    intSize = 32 /\ v[2] < 32768 /\ v[2] * 65536 + v[1] > 2147483647 - off

\* if offset+x > len(data) { return errBufferTooSmall }, x the prefix read
\* last.  A prefix of 2^16 or more exceeds every buffer of the model; with a
\* 32-bit int a negative x, or a sum that wraps, passes the check.
NeedLen(d, data) ==
    IF d.err # "nil" THEN d
    ELSE IF Negative(d.u32) \/ Wraps(d.off, d.u32) THEN d
    ELSE IF d.u32[2] > 0 \/ d.off + d.u32[1] > data.len
         THEN [d EXCEPT !.err = "errBufferTooSmall"]
    ELSE d

\* A decoder that leaves the field alone when the length read is 0.
TakeBytes_SkipEmpty(d, data, f) ==
    IF d.err # "nil" THEN d
    ELSE IF d.u32[2] > 0 \/ d.off + d.u32[1] > data.len THEN [d EXCEPT !.err = "panic"]
    ELSE IF d.u32[1] = 0 THEN d
    ELSE LET a == Alloc(d.h, SubSeq(Bytes(d.h, data), d.off + 1, d.off + d.u32[1]))
         IN  [d EXCEPT !.h = a.h, !.r[f] = a.s, !.off = @ + d.u32[1]]

\* A decoder whose field is a sub-slice of data, with no copy.
TakeBytes_Alias(d, data, f) ==
    IF d.err # "nil" THEN d
    ELSE IF d.u32[2] > 0 \/ d.off + d.u32[1] > data.len THEN [d EXCEPT !.err = "panic"]
    ELSE [d EXCEPT !.r[f] = SubSlice(data, d.off, d.off + d.u32[1]), !.off = @ + d.u32[1]]

\* r.f = make([]byte, x); copy(r.f, data[offset:offset+x]); offset += x
TakeBytes(d, data, f) ==
    IF d.err # "nil" THEN d
    ELSE IF d.u32[2] > 0 \/ d.off + d.u32[1] > data.len THEN [d EXCEPT !.err = "panic"]
    ELSE LET n == d.u32[1]
             a == Alloc(d.h, SubSeq(Bytes(d.h, data), d.off + 1, d.off + n))
         IN  [d EXCEPT !.h = a.h, !.r[f] = a.s, !.off = @ + n]

\* r.f = string(data[offset : offset+x])
TakeString(d, data, f) ==
    IF d.err # "nil" THEN d
    ELSE IF d.u32[2] > 0 \/ d.off + d.u32[1] > data.len THEN [d EXCEPT !.err = "panic"]
    ELSE [d EXCEPT !.r[f] = SubSeq(Bytes(d.h, data), d.off + 1, d.off + d.u32[1])]

\* r.f = binary.LittleEndian.Uint32(data[offset:]); offset += 4
TakeU32(d, data, f) ==
    IF d.err # "nil" THEN d
    ELSE IF d.off + 4 > data.len THEN [d EXCEPT !.err = "panic"]
    ELSE [d EXCEPT !.r[f] = Uint32(Bytes(d.h, data), d.off), !.off = @ + 4]

\* r.f = T(binary.LittleEndian.Uint32(data[offset:])); offset += 4, T an int32
TakeInt32(d, data, f) ==
    IF d.err # "nil" THEN d
    ELSE IF d.off + 4 > data.len THEN [d EXCEPT !.err = "panic"]
    ELSE [d EXCEPT !.r[f] = Int32OfU32(Uint32(Bytes(d.h, data), d.off)),
                   !.off = @ + 4]

\* r.f = binary.LittleEndian.Uint64(data[offset:]); offset += 8
TakeU64(d, data, f) ==
    IF d.err # "nil" THEN d
    ELSE IF d.off + 8 > data.len THEN [d EXCEPT !.err = "panic"]
    ELSE [d EXCEPT !.r[f] = Uint64(Bytes(d.h, data), d.off), !.off = @ + 8]

\* r.f = int64(binary.LittleEndian.Uint64(data[offset:]))
TakeInt64(d, data, f) ==
    IF d.err # "nil" THEN d
    ELSE IF d.off + 8 > data.len THEN [d EXCEPT !.err = "panic"]
    ELSE [d EXCEPT !.r[f] = Int64OfU64(Uint64(Bytes(d.h, data), d.off)),
                   !.off = @ + 8]

\* r.f = data[offset] != 0
TakeBool(d, data, f) ==
    IF d.err # "nil" THEN d
    ELSE IF d.off + 1 > data.len THEN [d EXCEPT !.err = "panic"]
    ELSE [d EXCEPT !.r[f] = (Bytes(d.h, data)[d.off + 1] # 0)]

\* (k *KV) Unmarshal: [h, r, err]
KV_Unmarshal(h, k, data) ==
    IF data.len < 37 THEN Refused(h, k)
    ELSE LET d0  == Decoder(h, k)
             k1  == ReadLen(d0, data)
             k2  == NeedLen(k1, data)
             d1  == TakeBytes(k2, data, "Key")
             v1  == Need(d1, data, 4)
             v2  == ReadLen(v1, data)
             v3  == NeedLen(v2, data)
             d2  == TakeBytes(v3, data, "Value")
             u1  == Need(d2, data, 4)
             u2  == ReadLen(u1, data)
             u3  == NeedLen(u2, data)
             d3  == TakeBytes(u3, data, "UserMeta")
             e1  == Need(d3, data, 8)
             d4  == TakeU64(e1, data, "Version")
             x1  == Need(d4, data, 8)
             d5  == TakeU64(x1, data, "ExpiresAt")
             m1  == Need(d5, data, 4)
             m2  == ReadLen(m1, data)
             m3  == NeedLen(m2, data)
             d6  == TakeBytes(m3, data, "Meta")
             s1  == Need(d6, data, 4)
             d7  == TakeU32(s1, data, "StreamId")
             b1  == Need(d7, data, 1)
             d8  == TakeBool(b1, data, "StreamDone")
         IN  Result(d8)

\* (m *ManifestChange) Unmarshal
ManifestChange_Unmarshal(h, m, data) ==
    IF data.len < 32 THEN Refused(h, m)
    ELSE LET d0 == Decoder(h, m)
             d1 == TakeU64(d0, data, "Id")
             d2 == TakeInt32(d1, data, "Op")
             d3 == TakeU32(d2, data, "Level")
             d4 == TakeU64(d3, data, "KeyId")
             d5 == TakeInt32(d4, data, "EncryptionAlgo")
             d6 == TakeU32(d5, data, "Compression")
         IN  Result(d6)

\* (d *DataKey) Unmarshal
DataKey_Unmarshal(h, k, data) ==
    IF data.len < 24 THEN Refused(h, k)
    ELSE LET d0 == Decoder(h, k)
             d1 == TakeU64(d0, data, "KeyId")
             a1 == ReadLen(d1, data)
             a2 == NeedLen(a1, data)
             d2 == TakeBytes(a2, data, "Data")
             i1 == Need(d2, data, 4)
             i2 == ReadLen(i1, data)
             i3 == NeedLen(i2, data)
             d3 == TakeBytes(i3, data, "Iv")
             c1 == Need(d3, data, 8)
             d4 == TakeInt64(c1, data, "CreatedAt")
         IN  Result(d4)

\* (c *Checksum) Unmarshal
Checksum_Unmarshal(h, c, data) ==
    IF data.len < 12 THEN Refused(h, c)
    ELSE LET d0 == Decoder(h, c)
             d1 == TakeInt32(d0, data, "Algo")
             d2 == TakeU64(d1, data, "Sum")
         IN  Result(d2)

\* (m *Match) Unmarshal
Match_Unmarshal(h, m, data) ==
    IF data.len < 8 THEN Refused(h, m)
    ELSE LET d0 == Decoder(h, m)
             p1 == ReadLen(d0, data)
             p2 == NeedLen(p1, data)
             d1 == TakeBytes(p2, data, "Prefix")
             i1 == Need(d1, data, 4)
             i2 == ReadLen(i1, data)
             i3 == NeedLen(i2, data)
             d2 == TakeString(i3, data, "IgnoreBytes")
         IN  Result(d2)

\* The zero value &KV{} and &ManifestChange{}
ZeroKV ==
    [type |-> "KV", Key |-> NilSlice, Value |-> NilSlice, UserMeta |-> NilSlice,
     Version |-> <<0, 0, 0, 0>>, ExpiresAt |-> <<0, 0, 0, 0>>, Meta |-> NilSlice,
     StreamId |-> <<0, 0>>, StreamDone |-> FALSE]

ZeroManifestChange ==
    [type |-> "ManifestChange", Id |-> <<0, 0, 0, 0>>, Op |-> 0, Level |-> <<0, 0>>,
     KeyId |-> <<0, 0, 0, 0>>, EncryptionAlgo |-> 0, Compression |-> <<0, 0>>]

\* A nil *KV / *ManifestChange
NilPtr == [type |-> "nil"]

\* make([]*T, count): count nil pointers.  Every entry takes 4 bytes of
\* data or more, so the entries past index len(data) stay nil in every run
\* and are left out.
MakePtrs(count, data) ==
    [i \in 1..(IF count[2] > 0 THEN data.len ELSE Min(count[1], data.len)) |-> NilPtr]

\* make([]*T, count) panics (len out of range): with a 32-bit int, a count
\* that is negative or whose 4-byte pointers take 2^32 bytes or more
TooManyPtrs(v) == intSize = 32 /\ v[2] >= 16384

\* r.f = make([]*T, count), count the prefix read last.  On a 64-bit build
\* make is taken to succeed (up to 2^32 - 1 pointers, 32 GiB).
MakeChildren(d, data, f) ==
    IF d.err # "nil" THEN d
    ELSE IF TooManyPtrs(d.u32) THEN [d EXCEPT !.err = "panic"]
    ELSE [d EXCEPT !.r[f] = MakePtrs(d.u32, data)]

\* A loop that forgets offset += size after a child.
ChildDecoded_NoAdvance(d, c, f, i) ==
    IF c.err # "nil"
    THEN [d EXCEPT !.h = c.h, !.r[f][i] = c.r, !.err = c.err,
                   !.child = i, !.childErr = c.err]
    ELSE [d EXCEPT !.h = c.h, !.r[f][i] = c.r]

\* A loop that advances by the bytes the child took, not by the length
\* prefix of its entry.
ChildDecoded_Exact(d, c, f, i) ==
    IF c.err # "nil"
    THEN [d EXCEPT !.h = c.h, !.r[f][i] = c.r, !.err = c.err,
                   !.child = i, !.childErr = c.err]
    ELSE [d EXCEPT !.h = c.h, !.r[f][i] = c.r,
                   !.off = @ + (IF c.r.type = "KV"
                                THEN 37 + c.r.Key.len + c.r.Value.len
                                     + c.r.UserMeta.len + c.r.Meta.len
                                ELSE 32)]

\* A loop that returns errInvalidData in place of the child's error.
ChildDecoded_Wrapped(d, c, f, i) ==
    IF c.err # "nil"
    THEN [d EXCEPT !.h = c.h, !.r[f][i] = c.r, !.err = "errInvalidData",
                   !.child = i, !.childErr = c.err]
    ELSE [d EXCEPT !.h = c.h, !.r[f][i] = c.r, !.off = @ + d.u32[1]]

\* The child's Unmarshal returned c: if err != nil { return err }, else
\* offset += size.  The receiver holds the child either way.
ChildDecoded(d, c, f, i) ==
    IF c.err # "nil"
    THEN [d EXCEPT !.h = c.h, !.r[f][i] = c.r, !.err = c.err,
                   !.child = i, !.childErr = c.err]
    ELSE [d EXCEPT !.h = c.h, !.r[f][i] = c.r, !.off = @ + d.u32[1]]

\* l.Kv[i] = &KV{}; l.Kv[i].Unmarshal(data[offset : offset+kvSize])
KVList_DecodeChild(d, data, i) ==
    IF d.err # "nil" THEN d
    ELSE IF d.u32[2] > 0 \/ d.off + d.u32[1] > data.len
         THEN [d EXCEPT !.r["Kv"][i] = ZeroKV, !.err = "panic"]
    ELSE ChildDecoded(
             d, KV_Unmarshal(d.h, ZeroKV, SubSlice(data, d.off, d.off + d.u32[1])),
             "Kv", i)

\* One pass of the loop of KVList.Unmarshal, for child i (from 1).
KVList_UnmarshalChild(d, data, i) ==
    LET n1 == Need(d, data, 4)
        n2 == ReadLen(n1, data)
        n3 == NeedLen(n2, data)
    IN  KVList_DecodeChild(n3, data, i)

RECURSIVE KVList_UnmarshalLoop(_, _, _, _)
KVList_UnmarshalLoop(d, data, i, count) ==
    IF i > count \/ d.err # "nil" THEN d
    ELSE LET d1 == KVList_UnmarshalChild(d, data, i)
         IN  KVList_UnmarshalLoop(d1, data, i + 1, count)

\* (l *KVList) Unmarshal
KVList_Unmarshal(h, l, data) ==
    IF data.len < 12 THEN Refused(h, l)
    ELSE LET c0 == Decoder(h, l)
             d0 == ReadLen(c0, data)
             d1 == MakeChildren(d0, data, "Kv")
             d2 == KVList_UnmarshalLoop(d1, data, 1, Len(d1.r.Kv))
             a1 == Need(d2, data, 8)
             d3 == TakeU64(a1, data, "AllocRef")
         IN  Result(d3)

\* m.Changes[i] = &ManifestChange{}; m.Changes[i].Unmarshal(data[offset : offset+changeSize])
ManifestChangeSet_DecodeChild(d, data, i) ==
    IF d.err # "nil" THEN d
    ELSE IF d.u32[2] > 0 \/ d.off + d.u32[1] > data.len
         THEN [d EXCEPT !.r["Changes"][i] = ZeroManifestChange, !.err = "panic"]
    ELSE ChildDecoded(
             d, ManifestChange_Unmarshal(d.h, ZeroManifestChange,
                                         SubSlice(data, d.off, d.off + d.u32[1])),
             "Changes", i)

\* One pass of the loop of ManifestChangeSet.Unmarshal, for child i (from 1).
ManifestChangeSet_UnmarshalChild(d, data, i) ==
    LET n1 == Need(d, data, 4)
        n2 == ReadLen(n1, data)
        n3 == NeedLen(n2, data)
    IN  ManifestChangeSet_DecodeChild(n3, data, i)

RECURSIVE ManifestChangeSet_UnmarshalLoop(_, _, _, _)
ManifestChangeSet_UnmarshalLoop(d, data, i, count) ==
    IF i > count \/ d.err # "nil" THEN d
    ELSE LET d1 == ManifestChangeSet_UnmarshalChild(d, data, i)
         IN  ManifestChangeSet_UnmarshalLoop(d1, data, i + 1, count)

\* (m *ManifestChangeSet) Unmarshal
ManifestChangeSet_Unmarshal(h, m, data) ==
    IF data.len < 4 THEN Refused(h, m)
    ELSE LET c0 == Decoder(h, m)
             d0 == ReadLen(c0, data)
             d1 == MakeChildren(d0, data, "Changes")
             d2 == ManifestChangeSet_UnmarshalLoop(d1, data, 1, Len(d1.r.Changes))
         IN  Result(d2)

UnmarshalOf(h, r, data) ==
    CASE r.type = "KV"                -> KV_Unmarshal(h, r, data)
      [] r.type = "KVList"            -> KVList_Unmarshal(h, r, data)
      [] r.type = "ManifestChange"    -> ManifestChange_Unmarshal(h, r, data)
      [] r.type = "ManifestChangeSet" -> ManifestChangeSet_Unmarshal(h, r, data)
      [] r.type = "DataKey"           -> DataKey_Unmarshal(h, r, data)
      [] r.type = "Checksum"          -> Checksum_Unmarshal(h, r, data)
      [] r.type = "Match"             -> Match_Unmarshal(h, r, data)

\* A record of the heap by value: every slice header replaced by its bytes
\* (a nil slice reads as the empty sequence), children included.
ViewKV(h, k) ==
    IF k.type # "KV" THEN k
    ELSE [k EXCEPT !.Key = Bytes(h, @), !.Value = Bytes(h, @),
                   !.UserMeta = Bytes(h, @), !.Meta = Bytes(h, @)]

View(h, r) ==
    CASE r.type = "KV"      -> ViewKV(h, r)
      [] r.type = "KVList"  -> [r EXCEPT !.Kv = [i \in 1..Len(@) |-> ViewKV(h, @[i])]]
      [] r.type = "DataKey" -> [r EXCEPT !.Data = Bytes(h, @), !.Iv = Bytes(h, @)]
      [] r.type = "Match"   -> [r EXCEPT !.Prefix = Bytes(h, @)]
      [] OTHER              -> r

\* A shallow copy: the clone's field shares the original's backing array.
CloneBytes_Shared(h, s) == [h |-> h, s |-> s]

\* make([]byte, len(s)); copy(_, s) when s is not nil
CloneBytes(h, s) ==
    IF s.arr = 0 THEN [h |-> h, s |-> NilSlice] ELSE Alloc(h, Bytes(h, s))

\* (k *KV) Clone: [h, r]
KV_Clone(h, k) ==
    IF k.type = "nil" THEN [h |-> h, r |-> NilPtr]
    ELSE LET a1 == CloneBytes(h, k.Key)
             a2 == CloneBytes(a1.h, k.Value)
             a3 == CloneBytes(a2.h, k.UserMeta)
             a4 == CloneBytes(a3.h, k.Meta)
         IN  [h |-> a4.h,
              r |-> [type |-> "KV", Key |-> a1.s, Value |-> a2.s,
                     UserMeta |-> a3.s, Version |-> k.Version,
                     ExpiresAt |-> k.ExpiresAt, Meta |-> a4.s,
                     StreamId |-> k.StreamId, StreamDone |-> k.StreamDone]]

\* append(b, data...): in place when the capacity of b allows, else into a
\* fresh backing array.
GoAppend(h, b, data) ==
    IF b.len + Len(data) <= b.cap
    THEN [h |-> Store(h, SubSlice(b, b.len, b.len + Len(data)), data),
          s |-> [b EXCEPT !.len = @ + Len(data)]]
    ELSE Alloc(h, Bytes(h, b) \o data)

\* return append(b, data...), nil
Returned(a) == [h |-> a.h, s |-> a.s, err |-> "nil"]

\* A return of the encoding alone, the prefix dropped.
Appended_NoPrefix(h, b, m) ==
    IF m.err # "nil" THEN [h |-> h, s |-> NilSlice, err |-> m.err]
    ELSE Returned(Alloc(h, m.buf))

\* if err != nil { return nil, err }; return append(b, data...), nil
Appended(h, b, m) ==
    IF m.err # "nil" THEN [h |-> h, s |-> NilSlice, err |-> m.err]
    ELSE Returned(GoAppend(h, b, m.buf))

\* (MarshalOptions) MarshalAppend: [h, s, err]
MarshalAppend(h, b, v) ==
    Appended(h, b, MarshalOf(v))

---------------------------------------------------------------------------
\* Input records.  A byte field of an input is [nil, b]: a nil slice, or a
\* slice holding b.

Pattern(n) == [i \in 1..n |-> (i * 83 + 172) % 256]

BytesIn ==
    {[nil |-> TRUE, b |-> <<>>]} \cup {[nil |-> FALSE, b |-> Pattern(n)] : n \in 0..MaxLen}

Present(b) == [nil |-> FALSE, b |-> b]

U64Samples == {<<0, 0, 0, 0>>, <<12345, 0, 0, 0>>, <<513, 65535, 258, 32768>>}

U32Samples == {<<0, 0>>, <<42, 0>>, <<65534, 65535>>}

Int32Samples == {0, 1, 2, 7, -1, 2147483647, -2147483647 - 1}

Int64Samples == {<<0, 0, 0, 0>>, <<12288, 24558, 0, 0>>, <<65535, 65535, 65535, -1>>,
                 <<0, 0, 0, -32768>>}

KVScalars ==
    {[Version |-> <<0, 0, 0, 0>>, ExpiresAt |-> <<0, 0, 0, 0>>,
      StreamId |-> <<0, 0>>, StreamDone |-> FALSE],
     [Version |-> <<12345, 0, 0, 0>>, ExpiresAt |-> <<2354, 1, 0, 0>>,
      StreamId |-> <<42, 0>>, StreamDone |-> TRUE],
     [Version |-> <<513, 65535, 258, 32768>>, ExpiresAt |-> <<65535, 65535, 65535, 65535>>,
      StreamId |-> <<65534, 65535>>, StreamDone |-> FALSE]}

InKV(key, value, userMeta, meta, sc) ==
    [type |-> "KV", Key |-> key, Value |-> value, UserMeta |-> userMeta,
     Version |-> sc.Version, ExpiresAt |-> sc.ExpiresAt, Meta |-> meta,
     StreamId |-> sc.StreamId, StreamDone |-> sc.StreamDone]

\* A byte field that is nil, empty or of full length.
BytesEnds == {b \in BytesIn : Len(b.b) \in {0, MaxLen}}

KVInputs ==
    {InKV(key, value, userMeta, meta, sc) :
        key \in BytesIn, value \in BytesIn, userMeta \in BytesIn,
        meta \in BytesEnds, sc \in KVScalars}

\* The KV of TestKVMarshalUnmarshal: Key "test-key", Value "test-value".
TestKV ==
    InKV(Present(<<116, 101, 115, 116, 45, 107, 101, 121>>),
         Present(<<116, 101, 115, 116, 45, 118, 97, 108, 117, 101>>),
         Present(<<1>>), Present(<<2>>),
         [Version |-> <<12345, 0, 0, 0>>, ExpiresAt |-> <<2354, 1, 0, 0>>,
          StreamId |-> <<42, 0>>, StreamDone |-> TRUE])

\* The children an input KVList draws from.
KVKids ==
    {InKV(Present(Pattern(IF sc.StreamDone THEN 0 ELSE MaxLen)),
          Present(Pattern(IF sc.StreamDone THEN MaxLen ELSE 0)), Present(<<>>),
          [nil |-> TRUE, b |-> <<>>], sc) : sc \in KVScalars}

InManifestChange(id, op, level, algo) ==
    [type |-> "ManifestChange", Id |-> id, Op |-> op, Level |-> level,
     KeyId |-> <<level[1], id[2], 7, id[4]>>, EncryptionAlgo |-> algo,
     Compression |-> <<level[2], 1>>]

ManifestChangeInputs ==
    {InManifestChange(id, op, level, algo) :
        id \in {<<0, 0, 0, 0>>, <<513, 65535, 258, 32768>>}, op \in Int32Samples,
        level \in {<<0, 0>>, <<65534, 65535>>}, algo \in {0, 5, -1}}

ManifestChangeKids ==
    {InManifestChange(<<12345, 0, 0, 0>>, op, <<3, 0>>, 0) : op \in {0, 1, -1}}

SeqsUpTo(S, n) == UNION {[1..m -> S] : m \in 0..n}

KVListInputs ==
    {[type |-> "KVList", Kv |-> kids, AllocRef |-> ref] :
        kids \in SeqsUpTo(KVKids, MaxKids),
        ref \in {<<0, 0, 0, 0>>, <<999, 0, 0, 32768>>}}

ManifestChangeSetInputs ==
    {[type |-> "ManifestChangeSet", Changes |-> kids] :
        kids \in SeqsUpTo(ManifestChangeKids, MaxKids)}

DataKeyInputs ==
    {[type |-> "DataKey", KeyId |-> id, Data |-> data, Iv |-> iv, CreatedAt |-> at] :
        id \in {<<0, 0, 0, 0>>, <<123, 0, 0, 65535>>}, data \in BytesIn,
        iv \in BytesIn, at \in Int64Samples}

ChecksumInputs ==
    {[type |-> "Checksum", Algo |-> algo, Sum |-> sum] :
        algo \in Int32Samples, sum \in U64Samples}

MatchInputs ==
    {[type |-> "Match", Prefix |-> prefix, IgnoreBytes |-> Pattern(n)] :
        prefix \in BytesIn, n \in 0..MaxLen}

Inputs ==
    KVInputs \cup {TestKV} \cup KVListInputs \cup ManifestChangeInputs \cup ManifestChangeSetInputs
    \cup DataKeyInputs \cup ChecksumInputs \cup MatchInputs

\* The receivers Unmarshal is called on: the zero value of the type (a fresh
\* record), or a record that already holds data.
ZeroOf(type) ==
    CASE type = "KV"                -> ZeroKV
      [] type = "KVList"            -> [type |-> "KVList", Kv |-> <<>>,
                                        AllocRef |-> <<0, 0, 0, 0>>]
      [] type = "ManifestChange"    -> ZeroManifestChange
      [] type = "ManifestChangeSet" -> [type |-> "ManifestChangeSet", Changes |-> <<>>]
      [] type = "DataKey"           -> [type |-> "DataKey", KeyId |-> <<0, 0, 0, 0>>,
                                        Data |-> NilSlice, Iv |-> NilSlice,
                                        CreatedAt |-> <<0, 0, 0, 0>>]
      [] type = "Checksum"          -> [type |-> "Checksum", Algo |-> 0,
                                        Sum |-> <<0, 0, 0, 0>>]
      [] type = "Match"             -> [type |-> "Match", Prefix |-> NilSlice,
                                        IgnoreBytes |-> <<>>]

UsedKV ==
    InKV(Present(<<9>>), Present(<<8, 8>>), Present(<<7>>), Present(<<6>>),
         [Version |-> <<1, 1, 1, 1>>, ExpiresAt |-> <<2, 2, 2, 2>>,
          StreamId |-> <<3, 3>>, StreamDone |-> TRUE])

UsedOf(type) ==
    CASE type = "KV"                -> UsedKV
      [] type = "KVList"            -> [type |-> "KVList", Kv |-> <<UsedKV>>,
                                        AllocRef |-> <<4, 4, 4, 4>>]
      [] type = "ManifestChange"    -> InManifestChange(<<1, 1, 1, 1>>, 3, <<2, 2>>, 4)
      [] type = "ManifestChangeSet" ->
             [type |-> "ManifestChangeSet",
              Changes |-> <<InManifestChange(<<1, 1, 1, 1>>, 3, <<2, 2>>, 4)>>]
      [] type = "DataKey"           -> [type |-> "DataKey", KeyId |-> <<1, 1, 1, 1>>,
                                        Data |-> Present(<<9>>), Iv |-> Present(<<8, 8>>),
                                        CreatedAt |-> <<2, 2, 2, 2>>]
      [] type = "Checksum"          -> [type |-> "Checksum", Algo |-> 3,
                                        Sum |-> <<1, 1, 1, 1>>]
      [] type = "Match"             -> [type |-> "Match", Prefix |-> Present(<<9>>),
                                        IgnoreBytes |-> <<8, 8>>]

\* Place an input in the heap: [h, r].
Put(h, in) == IF in.nil THEN [h |-> h, s |-> NilSlice] ELSE Alloc(h, in.b)

BuildKV(h, in) ==
    LET a1 == Put(h, in.Key)
        a2 == Put(a1.h, in.Value)
        a3 == Put(a2.h, in.UserMeta)
        a4 == Put(a3.h, in.Meta)
    IN  [h |-> a4.h,
         r |-> [in EXCEPT !.Key = a1.s, !.Value = a2.s, !.UserMeta = a3.s,
                          !.Meta = a4.s]]

RECURSIVE BuildKids(_, _, _)
BuildKids(h, kids, i) ==
    IF i > Len(kids) THEN [h |-> h, r |-> <<>>]
    ELSE LET k == BuildKV(h, kids[i])
             rest == BuildKids(k.h, kids, i + 1)
         IN  [h |-> rest.h, r |-> <<k.r>> \o rest.r]

Build(h, in) ==
    CASE in.type = "KV"      -> BuildKV(h, in)
      [] in.type = "KVList"  ->
             LET k == BuildKids(h, in.Kv, 1)
             IN  [h |-> k.h, r |-> [in EXCEPT !.Kv = k.r]]
      [] in.type = "DataKey" ->
             LET a1 == Put(h, in.Data)
                 a2 == Put(a1.h, in.Iv)
             IN  [h |-> a2.h, r |-> [in EXCEPT !.Data = a1.s, !.Iv = a2.s]]
      [] in.type = "Match"   ->
             LET a1 == Put(h, in.Prefix)
             IN  [h |-> a1.h, r |-> [in EXCEPT !.Prefix = a1.s]]
      [] OTHER               -> [h |-> h, r |-> in]

---------------------------------------------------------------------------
\* The free functions of the native backend.  MarshalOf, UnmarshalOf and
\* SizeOf are the method calls through the interfaces Marshaler, Unmarshaler
\* and Sizer.

\* An Unmarshal that resets the record before decoding into it.
Unmarshal_Reset(h, data, m) == UnmarshalOf(h, ZeroOf(m.type), data)

\* func Marshal(m Marshaler) ([]byte, error)
Marshal(m) == MarshalOf(m)

\* func Unmarshal(data []byte, m Unmarshaler) error
Unmarshal(h, data, m) == UnmarshalOf(h, m, data)

\* func Size(m Sizer) int
Size(m) == SizeOf(m)

---------------------------------------------------------------------------
\* The calls a client of the package makes on one record.

VARIABLES
    heap,   \* the backing arrays allocated so far
    rec,    \* the record being encoded or cloned (nil for a nil *KV)
    data,   \* the byte buffer last produced, as a slice header
    src,    \* how data came about: "full", "cut", "sized", "appended", "rest",
            \* "fuzzed", "padded", "childpadded"; or the free function called
    dst,    \* the receiver of the last Unmarshal
    dst0,   \* that receiver, by value, before the call
    err,    \* the error last returned
    n,      \* the byte count last returned
    clone,  \* the result of Clone
    snap,   \* rec by value when it was cloned; the prefix bytes before MarshalAppend
    pfx,    \* the prefix slice handed to MarshalAppend
    pc,     \* the call made last
    run     \* the child index and child error of the composite call made last

vars == <<heap, rec, data, src, dst, dst0, err, n, clone, snap, pfx, pc, run, intSize>>

\* No composite call made yet.
Idle == [w |-> Writer(<<>>), i |-> 0, kvSize |-> 0, childErr |-> "nil", grown |-> 0]

ByteFields == {"Key", "Value", "UserMeta", "Meta"}

Init ==
    \E in \in Inputs \cup {NilPtr} :
        LET b == Build(<<>>, in)
        IN  /\ heap = b.h
            /\ rec = b.r
            /\ data = NilSlice
            /\ src = "none"
            /\ dst = NilPtr
            /\ dst0 = NilPtr
            /\ err = "nil"
            /\ n = 0
            /\ clone = NilPtr
            /\ snap = NilPtr
            /\ pfx = NilSlice
            /\ pc = "init"
            /\ run = Idle
            /\ intSize = 64

\* data, err := rec.Marshal()
DoMarshal ==
    /\ pc = "init"
    /\ rec.type # "nil"
    /\ \E v \in {View(heap, rec)} : \E m \in {MarshalOf(v)} :
          \E a \in {Alloc(heap, m.buf)} :
              /\ heap' = a.h
              /\ data' = a.s
              /\ err' = m.err
              /\ n' = m.end
    /\ src' = "full"
    /\ pc' = "marshaled"
    /\ UNCHANGED <<rec, dst, dst0, clone, snap, pfx, run, intSize>>

\* data = data[:k], k short of the full encoding
Truncate ==
    /\ pc = "marshaled"
    /\ err = "nil"
    /\ \E k \in 0..(data.len - 1) : data' = SubSlice(data, 0, k)
    /\ src' = "cut"
    /\ pc' = "truncated"
    /\ UNCHANGED <<heap, rec, dst, dst0, err, n, clone, snap, pfx, run, intSize>>

\* err := recv.Unmarshal(data), recv fresh or already used
DoUnmarshal ==
    /\ pc \in {"marshaled", "truncated", "stripped", "fuzzed", "padded", "childpadded"}
    /\ err = "nil"
    /\ \E b \in {[h |-> heap, r |-> ZeroOf(rec.type)], Build(heap, UsedOf(rec.type))} :
          \E u \in {UnmarshalOf(b.h, b.r, data)} :
              /\ heap' = u.h
              /\ dst' = u.r
              /\ dst0' = View(b.h, b.r)
              /\ err' = u.err
              /\ run' = [Idle EXCEPT !.i = u.child, !.childErr = u.childErr]
    /\ pc' = "unmarshaled"
    /\ UNCHANGED <<rec, data, src, n, clone, snap, pfx, intSize>>

\* n, err := rec.MarshalToSizedBuffer(buf), buf a caller's buffer of any
\* length up to MaxLen bytes more than needed, holding 0xAA bytes
DoMarshalToSizedBuffer ==
    /\ pc = "init"
    /\ rec.type = "KV"
    /\ \E v \in {View(heap, rec)} : \E len \in 0..(KV_Size(v) + MaxLen) :
          \E a \in {Alloc(heap, [i \in 1..len |-> 170])} :
              \E r \in {KV_MarshalToSizedBuffer(v, a.h[a.s.arr])} :
                  /\ heap' = Store(a.h, a.s, r.buf)
                  /\ data' = a.s
                  /\ n' = r.n
                  /\ err' = r.err
    /\ src' = "sized"
    /\ pc' = "sized"
    /\ UNCHANGED <<rec, dst, dst0, clone, snap, pfx, run, intSize>>

\* clone := rec.Clone()
DoClone ==
    /\ pc = "init"
    /\ rec.type \in {"KV", "nil"}
    /\ \E c \in {KV_Clone(heap, rec)} :
          /\ heap' = c.h
          /\ clone' = c.r
    /\ snap' = ViewKV(heap, rec)
    /\ pc' = "cloned"
    /\ UNCHANGED <<rec, data, src, dst, dst0, err, n, pfx, run, intSize>>

\* rec.f[i] ^= 0xFF after cloning, for a byte field f not written before
Mutate ==
    /\ pc \in {"cloned", "mutated"}
    /\ rec.type = "KV"
    /\ \E f \in ByteFields : \E i \in 1..rec[f].len :
          \E s \in {SubSlice(rec[f], i - 1, i)} :
              /\ Bytes(heap, rec[f]) = snap[f]
              /\ heap' = Store(heap, s, <<255 - Bytes(heap, s)[1]>>)
    /\ pc' = "mutated"
    /\ UNCHANGED <<rec, data, src, dst, dst0, err, n, clone, snap, pfx, run, intSize>>

\* The prefixes handed to MarshalAppend: [b, spare], the bytes and the spare
\* capacity behind them; nil, or up to MaxLen bytes with no room, one byte
\* too little, or just enough room for the encoding of size sz.
Prefixes(sz) ==
    {[nil |-> TRUE, b |-> <<>>, spare |-> 0]} \cup
    {[nil |-> FALSE, b |-> [i \in 1..l |-> 112 + i], spare |-> c] :
        l \in 0..MaxLen, c \in {0, sz - 1, sz}}

\* The caller's prefix slice in the heap: [h, s]
BuildPrefix(h, p) ==
    IF p.nil THEN [h |-> h, s |-> NilSlice]
    ELSE LET a == Alloc(h, p.b \o [i \in 1..p.spare |-> 170])
         IN  [h |-> a.h, s |-> [a.s EXCEPT !.len = Len(p.b)]]

\* data, err := MarshalOptions{}.MarshalAppend(prefix, rec)
DoMarshalAppend ==
    /\ pc = "init"
    /\ rec.type # "nil"
    /\ \E v \in {View(heap, rec)} : \E sz \in {SizeOf(v)} : \E p \in Prefixes(sz) :
          \E a \in {BuildPrefix(heap, p)} : \E r \in {MarshalAppend(a.h, a.s, v)} :
              /\ heap' = r.h
              /\ data' = r.s
              /\ err' = r.err
              /\ pfx' = a.s
              /\ snap' = Bytes(a.h, a.s)
    /\ src' = "appended"
    /\ pc' = "appended"
    /\ UNCHANGED <<rec, dst, dst0, n, clone, run, intSize>>

\* data[i] ^= 0xFF for every i, after a successful Unmarshal(data)
Scribble ==
    /\ pc = "unmarshaled"
    /\ err = "nil"
    /\ data.len > 0
    /\ heap' = Store(heap, data, [i \in 1..data.len |-> 255 - Bytes(heap, data)[i]])
    /\ pc' = "scribbled"
    /\ UNCHANGED <<rec, data, src, dst, dst0, err, n, clone, snap, pfx, run, intSize>>

\* n := rec.Size()
DoSize ==
    /\ pc = "init"
    /\ rec.type # "nil"
    /\ n' = SizeOf(View(heap, rec))
    /\ pc' = "measured"
    /\ UNCHANGED <<heap, rec, data, src, dst, dst0, err, clone, snap, pfx, run, intSize>>

\* data = data[len(prefix):]
StripPrefix ==
    /\ pc = "appended"
    /\ err = "nil"
    /\ data' = SubSlice(data, pfx.len, data.len)
    /\ src' = "rest"
    /\ pc' = "stripped"
    /\ UNCHANGED <<heap, rec, dst, dst0, err, n, clone, snap, pfx, run, intSize>>

Next ==
    \/ DoMarshal
    \/ Truncate
    \/ DoUnmarshal
    \/ DoMarshalToSizedBuffer
    \/ DoClone
    \/ Mutate
    \/ DoMarshalAppend
    \/ StripPrefix
    \/ DoSize
    \/ Scribble

Spec == Init /\ [][Next]_vars

---------------------------------------------------------------------------
\* KVList.Marshal statement by statement, while another goroutine writes to
\* the list's children.  The package takes no lock, so the writes of the
\* other goroutine fall between any two statements.

InitRace ==
    \E in \in KVListInputs :
        \E b \in {Build(<<>>, in)} :
            /\ heap = b.h
            /\ rec = b.r
            /\ data = NilSlice
            /\ src = "none"
            /\ dst = NilPtr
            /\ dst0 = NilPtr
            /\ err = "nil"
            /\ n = 0
            /\ clone = NilPtr
            /\ snap = NilPtr
            /\ pfx = NilSlice
            /\ pc = "init"
            /\ run = Idle
            /\ intSize = 64

\* buf := make([]byte, l.Size()); PutUint32(buf[offset:], uint32(len(l.Kv)));
\* offset += 4
MarshalBegin ==
    /\ pc = "init"
    /\ \E w \in {Writer(Zeros(KVList_Size(View(heap, rec))))} :
          run' = [run EXCEPT !.w = Skip(PutUint32(w, U32OfInt(Len(rec.Kv))), 4),
                             !.i = 1]
    /\ pc' = "loop"
    /\ UNCHANGED <<heap, rec, data, src, dst, dst0, err, n, clone, snap, pfx, intSize>>

\* The call ends in a panic.
Panicked ==
    /\ pc' = "done"
    /\ err' = "panic"
    /\ UNCHANGED <<heap, data, intSize>>

\* kvSize := kv.Size(); PutUint32(buf[offset:], uint32(kvSize)); offset += 4
MarshalChildSize ==
    /\ pc = "loop"
    /\ run.i <= Len(rec.Kv)
    /\ \E sz \in {KV_Size(ViewKV(heap, rec.Kv[run.i]))} :
          \E w \in {Skip(PutUint32(run.w, U32OfInt(sz)), 4)} :
              /\ run' = [run EXCEPT !.w = w, !.kvSize = sz]
              /\ IF w.panic THEN Panicked
                 ELSE pc' = "child" /\ UNCHANGED <<heap, data, err>>
    /\ UNCHANGED <<rec, src, dst, dst0, n, clone, snap, pfx, intSize>>

\* The error the child's call returns ("nil" when the slice expression
\* panics before the call); run.childErr keeps the first one of a run.
ChildErr(w, kv, kvSize) ==
    IF w.off + kvSize > Len(w.buf) THEN "nil"
    ELSE KV_MarshalToSizedBuffer(kv, SubSeq(w.buf, w.off + 1, w.off + kvSize)).err

\* kv.MarshalToSizedBuffer(buf[offset : offset+kvSize]); offset += kvSize
MarshalChild ==
    /\ pc = "child"
    /\ \E kv \in {ViewKV(heap, rec.Kv[run.i])} :
          \E w \in {KVList_WriteChild(run.w, kv, run.kvSize)} :
              /\ run' = [run EXCEPT !.w = w, !.i = @ + 1,
                                    !.childErr = IF @ # "nil" THEN @
                                                 ELSE ChildErr(run.w, kv, run.kvSize)]
              /\ IF w.panic THEN Panicked
                 ELSE pc' = "loop" /\ UNCHANGED <<heap, data, err>>
    /\ UNCHANGED <<rec, src, dst, dst0, n, clone, snap, pfx, intSize>>

\* PutUint64(buf[offset:], l.AllocRef); return buf, nil
MarshalEnd ==
    /\ pc = "loop"
    /\ run.i > Len(rec.Kv)
    /\ \E w \in {PutUint64(run.w, rec.AllocRef)} :
          /\ run' = [run EXCEPT !.w = w]
          /\ IF w.panic THEN Panicked
             ELSE \E a \in {Alloc(heap, w.buf)} :
                      /\ heap' = a.h
                      /\ data' = a.s
                      /\ err' = "nil"
                      /\ pc' = "done"
    /\ UNCHANGED <<rec, src, dst, dst0, n, clone, snap, pfx, intSize>>

\* Another goroutine: kv.Key = append(kv.Key, 1), for a child kv of the list
Grow ==
    /\ pc \in {"loop", "child"}
    /\ run.grown < MaxGrow
    /\ \E j \in 1..Len(rec.Kv) :
          \E a \in {Alloc(heap, Bytes(heap, rec.Kv[j].Key) \o <<1>>)} :
              /\ heap' = a.h
              /\ rec' = [rec EXCEPT !.Kv[j].Key = a.s]
    /\ run' = [run EXCEPT !.grown = @ + 1]
    /\ UNCHANGED <<data, src, dst, dst0, err, n, clone, snap, pfx, pc, intSize>>

NextRace ==
    \/ MarshalBegin
    \/ MarshalChildSize
    \/ MarshalChild
    \/ MarshalEnd
    \/ Grow

SpecRace == InitRace /\ [][NextRace]_vars

---------------------------------------------------------------------------
\* Unmarshal on bytes no encoder produced: an encoding with one byte
\* overwritten, with bytes appended, or with a child entry made longer than
\* the child needs; on builds with a 32-bit and with a 64-bit int.

\* The values a byte of an encoding is overwritten with.
FuzzBytes == {0, 1, 36, 128, 255}

FuzzKV ==
    InKV(Present(Pattern(1)), Present(Pattern(MaxLen)), Present(<<>>),
         [nil |-> TRUE, b |-> <<>>],
         [Version |-> <<12345, 0, 0, 0>>, ExpiresAt |-> <<2354, 1, 0, 0>>,
          StreamId |-> <<42, 0>>, StreamDone |-> TRUE])

FuzzInputs ==
    {FuzzKV,
     [type |-> "KVList",
      Kv |-> <<FuzzKV, [FuzzKV EXCEPT !.Key = Present(<<>>), !.StreamDone = FALSE]>>,
      AllocRef |-> <<999, 0, 0, 32768>>],
     InManifestChange(<<513, 65535, 258, 32768>>, 1, <<3, 0>>, 0),
     [type |-> "ManifestChangeSet",
      Changes |-> <<InManifestChange(<<12345, 0, 0, 0>>, 1, <<3, 0>>, 0),
                    InManifestChange(<<7, 0, 0, 0>>, -1, <<65534, 65535>>, 5)>>],
     [type |-> "DataKey", KeyId |-> <<123, 0, 0, 65535>>, Data |-> Present(Pattern(MaxLen)),
      Iv |-> Present(Pattern(1)), CreatedAt |-> <<0, 0, 0, -32768>>],
     [type |-> "Checksum", Algo |-> 1, Sum |-> <<513, 65535, 258, 32768>>],
     [type |-> "Match", Prefix |-> Present(Pattern(MaxLen)), IgnoreBytes |-> Pattern(1)]}

InitFuzz ==
    \E in \in FuzzInputs : \E w \in {32, 64} :
        \E b \in {Build(<<>>, in)} :
            /\ heap = b.h
            /\ rec = b.r
            /\ data = NilSlice
            /\ src = "none"
            /\ dst = NilPtr
            /\ dst0 = NilPtr
            /\ err = "nil"
            /\ n = 0
            /\ clone = NilPtr
            /\ snap = NilPtr
            /\ pfx = NilSlice
            /\ pc = "init"
            /\ run = Idle
            /\ intSize = w

\* data[i] = v, for any byte of the encoding
Overwrite ==
    /\ pc = "marshaled"
    /\ err = "nil"
    /\ \E i \in 1..data.len : \E v \in FuzzBytes :
          /\ Bytes(heap, data)[i] # v
          /\ heap' = Store(heap, SubSlice(data, i - 1, i), <<v>>)
    /\ src' = "fuzzed"
    /\ pc' = "fuzzed"
    /\ UNCHANGED <<rec, data, dst, dst0, err, n, clone, snap, pfx, run, intSize>>

\* data = append(data, t...), t up to MaxPad bytes
Extend ==
    /\ pc = "marshaled"
    /\ err = "nil"
    /\ \E t \in 1..MaxPad : \E v \in FuzzBytes :
          \E a \in {Alloc(heap, Bytes(heap, data) \o [i \in 1..t |-> v])} :
              /\ heap' = a.h
              /\ data' = a.s
    /\ src' = "padded"
    /\ pc' = "padded"
    /\ UNCHANGED <<rec, dst, dst0, err, n, clone, snap, pfx, run, intSize>>

\* The offset of the entry of child i in the encoding of a composite record.
RECURSIVE EntryOff(_, _)
EntryOff(kids, i) ==
    IF i = 1 THEN 4 ELSE EntryOff(kids, i - 1) + 4 + SizeOf(kids[i - 1])

\* b with the entry at off, of a child of sz bytes, made t bytes longer: the
\* length prefix says sz + t, and t bytes of v follow the child's encoding.
Padded(b, off, sz, t, v) ==
    SubSeq(b, 1, off) \o LE32(U32OfInt(sz + t)) \o SubSeq(b, off + 5, off + 4 + sz)
    \o [i \in 1..t |-> v] \o SubSeq(b, off + 4 + sz + 1, Len(b))

\* The encoding of a composite record with the entry of one child made up to
\* MaxPad bytes longer than the child's encoding.
PadChild ==
    /\ pc = "marshaled"
    /\ err = "nil"
    /\ rec.type \in {"KVList", "ManifestChangeSet"}
    /\ \E kids \in {IF rec.type = "KVList" THEN View(heap, rec).Kv ELSE rec.Changes} :
          \E i \in 1..Len(kids) : \E t \in 1..MaxPad : \E v \in FuzzBytes :
              \E a \in {Alloc(heap, Padded(Bytes(heap, data), EntryOff(kids, i),
                                           SizeOf(kids[i]), t, v))} :
                  /\ heap' = a.h
                  /\ data' = a.s
    /\ src' = "childpadded"
    /\ pc' = "childpadded"
    /\ UNCHANGED <<rec, dst, dst0, err, n, clone, snap, pfx, run, intSize>>

\* data, err := Marshal(rec)
CallMarshal ==
    /\ pc = "init"
    /\ \E m \in {Marshal(View(heap, rec))} : \E a \in {Alloc(heap, m.buf)} :
          /\ heap' = a.h
          /\ data' = a.s
          /\ err' = m.err
          /\ n' = m.end
    /\ src' = "Marshal"
    /\ pc' = "called"
    /\ UNCHANGED <<rec, dst, dst0, clone, snap, pfx, run, intSize>>

\* n := Size(rec)
CallSize ==
    /\ pc = "init"
    /\ n' = Size(View(heap, rec))
    /\ src' = "Size"
    /\ pc' = "called"
    /\ UNCHANGED <<heap, rec, data, dst, dst0, err, clone, snap, pfx, run, intSize>>

\* The receivers Unmarshal is handed in heap h: a fresh one and a used one.
Receivers(h, type) == {[h |-> h, r |-> ZeroOf(type)], Build(h, UsedOf(type))}

\* err := Unmarshal(data, recv), recv fresh or already used
CallUnmarshal ==
    /\ pc \in {"marshaled", "fuzzed", "padded", "childpadded"}
    /\ err = "nil"
    /\ \E b \in Receivers(heap, rec.type) :
          \E u \in {Unmarshal(b.h, data, b.r)} :
              /\ heap' = u.h
              /\ dst' = u.r
              /\ dst0' = View(b.h, b.r)
              /\ err' = u.err
              /\ run' = [Idle EXCEPT !.i = u.child, !.childErr = u.childErr]
    /\ src' = "Unmarshal"
    /\ pc' = "called"
    /\ UNCHANGED <<rec, data, n, clone, snap, pfx, intSize>>

NextFuzz ==
    \/ DoMarshal
    \/ Overwrite
    \/ Extend
    \/ PadChild
    \/ DoUnmarshal
    \/ CallMarshal
    \/ CallSize
    \/ CallUnmarshal

SpecFuzz == InitFuzz /\ [][NextFuzz]_vars

---------------------------------------------------------------------------
\* Properties

NonComposite == {"KV", "ManifestChange", "DataKey", "Checksum", "Match"}

Composite == {"KVList", "ManifestChangeSet"}

\* The last call was an Unmarshal, into a fresh record, of bytes of kind s.
DecodedFresh(s) ==
    /\ pc = "unmarshaled"
    /\ src = s
    /\ dst0 = View(heap, ZeroOf(rec.type))

\* The children of a composite record.
Kids(r) == IF r.type = "KVList" THEN r.Kv ELSE r.Changes

\* C1: for KV, ManifestChange, DataKey, Checksum and Match, Marshal(r)
\* succeeds, and Unmarshal of its bytes into a fresh record succeeds and
\* yields a record equal to r field by field (a nil byte field equal to an
\* empty one), zero-length fields, zero integers and a negative
\* DataKey.CreatedAt included.
C1_RoundTrip ==
    rec.type \in NonComposite =>
        /\ pc = "marshaled" => err = "nil"
        /\ DecodedFresh("full") => err = "nil" /\ View(heap, dst) = View(heap, rec)

\* A DataKey with a nil Data and a negative CreatedAt has been decoded back.
C1_Witness ==
    /\ rec.type = "DataKey"
    /\ DecodedFresh("full")
    /\ rec.Data.arr = 0
    /\ rec.CreatedAt[4] < 0
    /\ dst.CreatedAt = rec.CreatedAt

\* C2: for every KVList and ManifestChangeSet, Unmarshal(Marshal(x)) into a
\* fresh record yields as many children, in the same order, each equal field
\* by field to the original child at its index, and for a KVList the same
\* AllocRef.
C2_CompositeRoundTrip ==
    rec.type \in Composite =>
        /\ pc = "marshaled" => err = "nil"
        /\ DecodedFresh("full") =>
              /\ err = "nil"
              /\ Len(Kids(dst)) = Len(Kids(rec))
              /\ \A i \in 1..Len(Kids(rec)) :
                    ViewKV(heap, Kids(dst)[i]) = ViewKV(heap, Kids(rec)[i])
              /\ rec.type = "KVList" => dst.AllocRef = rec.AllocRef

\* A KVList of two different KVs with a non-zero AllocRef has been decoded back.
C2_Witness ==
    /\ rec.type = "KVList"
    /\ DecodedFresh("full")
    /\ Len(rec.Kv) = 2
    /\ ViewKV(heap, rec.Kv[1]) # ViewKV(heap, rec.Kv[2])
    /\ rec.AllocRef = <<999, 0, 0, 32768>>
    /\ Len(dst.Kv) = 2

\* C3: for every record of every type, Marshal returns exactly Size() bytes
\* and its writes end exactly at offset Size(); ManifestChangeSet.Size, with
\* its hard-coded 4+32 per child, agrees with what Marshal writes.
C3_SizeConsistency ==
    pc = "marshaled" =>
        /\ err = "nil"
        /\ data.len = SizeOf(View(heap, rec))
        /\ n = SizeOf(View(heap, rec))

\* A ManifestChangeSet of two changes has been encoded.
C3_Witness ==
    /\ pc = "marshaled"
    /\ rec.type = "ManifestChangeSet"
    /\ Len(rec.Changes) = 2
    /\ data.len = 76

\* C4: Unmarshal of the first k bytes of Marshal(r), k < len(Marshal(r)),
\* returns errBufferTooSmall: it never succeeds and never reads at or past
\* index k (such a read ends the call as "panic").
C4_Truncation ==
    pc = "unmarshaled" /\ src = "cut" => err = "errBufferTooSmall"

\* A KV cut short behind its fixed-size minimum, and a KVList cut inside its
\* second child, have been refused.
C4_Witness ==
    /\ pc = "unmarshaled"
    /\ src = "cut"
    /\ err = "errBufferTooSmall"
    /\ \/ rec.type = "KV" /\ data.len >= 37
       \/ /\ rec.type = "KVList"
          /\ Len(dst.Kv) = 2
          /\ dst.Kv[1].type = "KV"
          /\ data.len > 16 + KV_Size(ViewKV(heap, dst.Kv[1]))

\* C5: MarshalAppend(P, r) returns B with B[:len(P)] = P and
\* B[len(P):] = Marshal(r), decoding B[len(P):] into a fresh record yields r,
\* and the caller's P still reads as before.
C5_MarshalAppend ==
    /\ pc = "appended" =>
          /\ err = "nil"
          /\ data.len >= Len(snap)
          /\ SubSeq(Bytes(heap, data), 1, Len(snap)) = snap
          /\ SubSeq(Bytes(heap, data), Len(snap) + 1, data.len) =
                 MarshalOf(View(heap, rec)).buf
          /\ Bytes(heap, pfx) = snap
    /\ DecodedFresh("rest") => err = "nil" /\ View(heap, dst) = View(heap, rec)

\* A record has been appended in place behind a non-empty prefix with spare
\* capacity, and decoded back from the bytes behind the prefix.
C5_Witness ==
    /\ DecodedFresh("rest")
    /\ pfx.len > 0
    /\ pfx.arr = data.arr
    /\ err = "nil"

\* C6: Clone of a nil *KV is nil; Clone of a KV equals it field by field when
\* cloned, and keeps those values through every later in-place change of the
\* bytes of the original's Key, Value, UserMeta or Meta.
C6_Clone ==
    pc \in {"cloned", "mutated"} =>
        IF rec.type = "nil" THEN clone = NilPtr
        ELSE clone.type = "KV" /\ ViewKV(heap, clone) = snap

\* The original has been changed in place after cloning.
C6_Witness ==
    /\ pc = "mutated"
    /\ clone.type = "KV"
    /\ ViewKV(heap, rec) # snap
    /\ rec.Key.len > 0
    /\ Bytes(heap, rec.Key) # Bytes(heap, clone.Key)

\* The named values of ManifestChange_Operation / Checksum_Algorithm, and of
\* EncryptionAlgo.
NamedOp == {0, 1}

NamedAlgo == {0}

\* The record holds an enum value outside its enumeration.
UnknownEnum ==
    \/ rec.type = "ManifestChange" /\ (rec.Op \notin NamedOp \/ rec.EncryptionAlgo \notin NamedAlgo)
    \/ rec.type = "Checksum" /\ rec.Algo \notin NamedOp

\* C7: a ManifestChange whose Op or EncryptionAlgo, or a Checksum whose Algo,
\* lies outside the named values (negative values included) is encoded
\* without error and decodes, into any receiver, to the same raw integers.
C7_UnknownEnum ==
    UnknownEnum =>
        /\ pc = "marshaled" => err = "nil"
        /\ pc = "unmarshaled" /\ src = "full" =>
              /\ err = "nil"
              /\ rec.type = "ManifestChange" =>
                    dst.Op = rec.Op /\ dst.EncryptionAlgo = rec.EncryptionAlgo
              /\ rec.type = "Checksum" => dst.Algo = rec.Algo

\* A ManifestChange with Op = -2^31 and EncryptionAlgo = -1 has been decoded back.
C7_Witness ==
    /\ pc = "unmarshaled"
    /\ src = "full"
    /\ rec.type = "ManifestChange"
    /\ rec.Op = -2147483647 - 1
    /\ rec.EncryptionAlgo = -1
    /\ dst.Op < 0

\* C8: KV.MarshalToSizedBuffer(buf) returns io.ErrShortBuffer exactly when
\* len(buf) < Size(); otherwise it returns (Size(), nil) and the first Size()
\* bytes of buf equal Marshal() of the record.
C8_MarshalToSizedBuffer ==
    pc = "sized" =>
        /\ err \in {"nil", "io.ErrShortBuffer"}
        /\ err = "io.ErrShortBuffer" <=> data.len < KV_Size(ViewKV(heap, rec))
        /\ err = "nil" =>
              /\ n = KV_Size(ViewKV(heap, rec))
              /\ SubSeq(Bytes(heap, data), 1, n) = KV_Marshal(ViewKV(heap, rec)).buf

\* A buffer of exactly Size() bytes has been filled, for a KV with a key.
C8_Witness ==
    /\ pc = "sized"
    /\ rec.Key.len > 0
    /\ data.len = KV_Size(ViewKV(heap, rec))
    /\ err = "nil"
    /\ n = data.len

\* C9: whenever Unmarshal returns an error, every field of the receiver has
\* the value it had before the call.
C9_ReceiverUnchanged ==
    pc = "unmarshaled" /\ err # "nil" => View(heap, dst) = dst0

\* C10: when the call that encodes a child of a KVList returns an error,
\* KVList.Marshal returns that error and no byte sequence.
C10_ChildErrorPropagates ==
    pc = "done" /\ run.childErr # "nil" => err = run.childErr /\ data = NilSlice

\* The entries of a KVList encoding from child i on: for each child its
\* Size() as 4 little-endian bytes, then its KV encoding.
RECURSIVE KVList_Entries(_, _)
KVList_Entries(kvs, i) ==
    IF i > Len(kvs) THEN <<>>
    ELSE LE32(U32OfInt(KV_Size(kvs[i]))) \o KV_Marshal(kvs[i]).buf
         \o KVList_Entries(kvs, i + 1)

\* The last k bytes of b.
LastBytes(b, k) == SubSeq(b, Len(b) - k + 1, Len(b))

\* C13: the encoding of a KVList is its child count as 4 little-endian
\* bytes, then for each child in order its Size() as 4 little-endian bytes
\* followed by its KV encoding, then AllocRef as the last 8 bytes, little
\* endian.  Unmarshal reads AllocRef after all the entries: a decode of the
\* full encoding takes it from the last 8 bytes, and a decode that fails
\* leaves the receiver's AllocRef as it was.
C13_KVListLayout ==
    rec.type = "KVList" =>
        /\ pc = "marshaled" =>
              /\ Bytes(heap, data) =
                    LE32(U32OfInt(Len(rec.Kv)))
                    \o KVList_Entries(View(heap, rec).Kv, 1)
                    \o LE64(rec.AllocRef)
              /\ LastBytes(Bytes(heap, data), 8) = LE64(rec.AllocRef)
        /\ pc = "unmarshaled" /\ src = "full" =>
              dst.AllocRef = Uint64(LastBytes(Bytes(heap, data), 8), 0)
        /\ pc = "unmarshaled" /\ err # "nil" => dst.AllocRef = dst0.AllocRef

\* A KVList of two children and a non-zero AllocRef has been encoded, and
\* its encoding decoded into a record that held another AllocRef.
C13_Witness ==
    /\ rec.type = "KVList"
    /\ pc = "unmarshaled"
    /\ src = "full"
    /\ Len(rec.Kv) = 2
    /\ rec.AllocRef = <<999, 0, 0, 32768>>
    /\ dst0.AllocRef = <<4, 4, 4, 4>>
    /\ dst.AllocRef = rec.AllocRef
    /\ data.len = 4 + (4 + KV_Size(View(heap, rec).Kv[1]))
                    + (4 + KV_Size(View(heap, rec).Kv[2])) + 8

\* The KV whose byte fields are all empty and whose other fields are zero.
EmptyKV(k) ==
    /\ k.type = "KV"
    /\ k.Key.len = 0 /\ k.Value.len = 0 /\ k.UserMeta.len = 0 /\ k.Meta.len = 0

\* C14: Size() of a KV is 37 plus the lengths of key, value, userMeta and
\* meta (57 for the KV with an 8-byte key, a 10-byte value and one byte of
\* userMeta and of meta); KV.Unmarshal returns errBufferTooSmall for every
\* buffer shorter than 37 bytes, and accepts the encoding of a KV whose byte
\* fields are all empty, which is 37 bytes long.
C14_KVSize ==
    rec.type = "KV" =>
        /\ pc = "measured" =>
              /\ n = 37 + rec.Key.len + rec.Value.len + rec.UserMeta.len + rec.Meta.len
              /\ (/\ rec.Key.len = 8 /\ rec.Value.len = 10
                  /\ rec.UserMeta.len = 1 /\ rec.Meta.len = 1) => n = 57
        /\ pc = "unmarshaled" /\ data.len < 37 => err = "errBufferTooSmall"
        /\ pc = "unmarshaled" /\ src = "full" /\ EmptyKV(rec) =>
              data.len = 37 /\ err = "nil"

\* Size() has returned 57 for the KV with an 8-byte key and a 10-byte value.
C14_Witness ==
    /\ pc = "measured"
    /\ rec.type = "KV"
    /\ rec.Key.len = 8
    /\ rec.Value.len = 10
    /\ rec.UserMeta.len = 1
    /\ rec.Meta.len = 1
    /\ n = 57


\* C11: when the Unmarshal of child i of a KVList or ManifestChangeSet
\* fails, the parent returns that child's error as it is, decodes no child
\* after i (their pointers stay nil) and, for a KVList, does not read the
\* trailing AllocRef (the receiver keeps the one it had).
C11_ChildErrorReturned ==
    pc = "unmarshaled" /\ run.i > 0 =>
        /\ err = run.childErr
        /\ \A j \in (run.i + 1)..Len(Kids(dst)) : Kids(dst)[j] = NilPtr
        /\ dst.type = "KVList" => dst.AllocRef = dst0.AllocRef

\* The first of two children of a KVList was handed fewer than 37 bytes and
\* returned errBufferTooSmall; the receiver held another AllocRef before.
C11_Witness ==
    /\ pc = "unmarshaled"
    /\ dst.type = "KVList"
    /\ run.i = 1
    /\ run.childErr = "errBufferTooSmall"
    /\ err = "errBufferTooSmall"
    /\ Len(dst.Kv) = 2
    /\ dst.Kv[2] = NilPtr
    /\ dst0.AllocRef = <<4, 4, 4, 4>>
    /\ dst.AllocRef = <<4, 4, 4, 4>>
    /\ Bytes(heap, data)[5] = 36

\* C15 (refuted on a 32-bit build): on arbitrary input bytes Unmarshal of
\* every type returns nil or errBufferTooSmall, never another error and
\* never a panic from an index or length out of range.
C15_OnlyBufferTooSmall ==
    pc = "unmarshaled" => err \in {"nil", "errBufferTooSmall"}

\* On a build with a 64-bit int, and memory for the make of every count,
\* the same decodes return nil or errBufferTooSmall only.
Fuzz64_OnlyBufferTooSmall ==
    pc = "unmarshaled" /\ intSize = 64 => err \in {"nil", "errBufferTooSmall"}

\* C16: Unmarshal tolerates trailing bytes: the encoding of a record
\* followed by any bytes decodes without error to the same record; and an
\* entry of a KVList or ManifestChangeSet whose length prefix exceeds the
\* child's encoded length is accepted, the surplus bytes being skipped.
C16_TrailingBytes ==
    pc = "unmarshaled" /\ src \in {"padded", "childpadded"} =>
        /\ err = "nil"
        /\ View(heap, dst) = View(heap, rec)

\* A KVList whose encoding had one entry made longer than its child has been
\* decoded, into a record that held other data, to the original list.
C16_Witness ==
    /\ pc = "unmarshaled"
    /\ src = "childpadded"
    /\ rec.type = "KVList"
    /\ data.len = n + MaxPad
    /\ dst0.AllocRef = <<4, 4, 4, 4>>
    /\ err = "nil"
    /\ Len(dst.Kv) = 2
    /\ dst.AllocRef = rec.AllocRef

\* The record, by value, that Unmarshal of data yields in a fresh receiver.
FreshDecode(h, type, d) ==
    LET u == UnmarshalOf(h, ZeroOf(type), d)
    IN  View(u.h, u.r)

\* C17: a successful Unmarshal overwrites every field of its receiver: the
\* record it leaves is the one the same bytes yield in a fresh receiver,
\* whatever the receiver held before, children of a composite receiver
\* included.
C17_ReceiverIndependent ==
    pc = "unmarshaled" /\ err = "nil" =>
        View(heap, dst) = FreshDecode(heap, dst.type, data)

\* A KV receiver that held a non-empty UserMeta has decoded bytes that no
\* encoder produced for rec, and now holds the empty UserMeta they carry.
C17_Witness ==
    /\ pc = "unmarshaled"
    /\ err = "nil"
    /\ src = "fuzzed"
    /\ dst.type = "KV"
    /\ dst0.UserMeta = <<7>>
    /\ dst.UserMeta.len = 0
    /\ View(heap, dst) # View(heap, rec)
    /\ View(heap, dst) # dst0

\* C18: a decoded record owns its bytes: overwriting the bytes of data
\* after a successful Unmarshal leaves every field of the decoded record as
\* it was (KV key, value, userMeta and meta, DataKey data and iv, Match
\* prefix and ignoreBytes, the children of a KVList); and Marshal, Size and
\* MarshalToSizedBuffer leave every field of the record they are called on
\* unchanged.
C18_Frame ==
    [][/\ pc' = "scribbled" => dst' = dst /\ View(heap', dst') = View(heap, dst)
       /\ pc' \in {"marshaled", "measured", "sized"} =>
              rec' = rec /\ View(heap', rec') = View(heap, rec)]_vars

\* Every byte of the encoding of a KV with a key of MaxLen bytes has been
\* overwritten after it was decoded, and the decoded key is the original one.
C18_Witness ==
    /\ pc = "scribbled"
    /\ dst.type = "KV"
    /\ dst.Key.len = MaxLen
    /\ Bytes(heap, dst.Key) = Pattern(MaxLen)
    /\ Bytes(heap, data)[1] = 255 - MaxLen
    /\ Bytes(heap, data)[5] = 255 - Pattern(MaxLen)[1]

\* C12: in the native backend the free functions Marshal(record),
\* Unmarshal(bytes, record) and Size(record) return exactly what the
\* record's own method returns: the same bytes and error, the same error
\* and the same effect on the record, the same integer.
C12_FreeFunctions ==
    [][pc' = "called" =>
          /\ src' = "Marshal" =>
                /\ Bytes(heap', data') = MarshalOf(View(heap, rec)).buf
                /\ err' = MarshalOf(View(heap, rec)).err
                /\ View(heap', rec') = View(heap, rec)
          /\ src' = "Size" =>
                /\ n' = SizeOf(View(heap, rec))
                /\ View(heap', rec') = View(heap, rec)
          /\ src' = "Unmarshal" =>
                \E b \in Receivers(heap, rec.type) :
                    /\ View(b.h, b.r) = dst0'
                    /\ err' = UnmarshalOf(b.h, b.r, data).err
                    /\ View(heap', dst') =
                          View(UnmarshalOf(b.h, b.r, data).h, UnmarshalOf(b.h, b.r, data).r)]_vars

\* The free function Unmarshal was handed a KV that held data and bytes cut
\* short by an overwritten length; it returned errBufferTooSmall and left
\* the KV neither as it was nor as rec.
C12_Witness ==
    /\ pc = "called"
    /\ src = "Unmarshal"
    /\ dst.type = "KV"
    /\ dst0.Key = <<9>>
    /\ err = "errBufferTooSmall"
    /\ View(heap, dst) # dst0
    /\ View(heap, dst) # View(heap, rec)
====
